---- MODULE Spec2Model ----
(***************************************************************************)
(* Greek curriculum generator (greek_appv0.4_live.py): the session state   *)
(* of the three-stage pipeline (calibration, skeleton, workbench) and the  *)
(* text functions that turn the language model's replies into records.     *)
(*                                                                         *)
(* A text is a sequence of one-character strings.  An optional value is a  *)
(* sequence of length 0 (Python's None) or 1 (the value).                  *)
(***************************************************************************)
EXTENDS Integers, Sequences, FiniteSets, TLC

VARIABLES analyzed_curriculum, locked_config, syllabus_df,
          generated_lessons, uploaded_context, last, edits

vars == <<analyzed_curriculum, locked_config, syllabus_df,
          generated_lessons, uploaded_context, last, edits>>

(***************************************************************************)
(* Bounds of the model and constants of the program.                       *)
(***************************************************************************)
\* range(34) of the fallback skeleton
NumWeeks == 34
\* longest enumerated reply of the skeleton call, in characters
MaxTextLen == 5
\* grid rows the user edits or selects: the first MaxRow rows
MaxRow == 2
\* grid edits in one session
MaxEdits == 1
\* text[:10000] of the calibration prompt
CURRICULUM_LIMIT == 10000
\* source_text[:20000] of the lesson prompt
SOURCE_LIMIT == 20000
\* pages of the longest curriculum document explored
MaxPages == 2
\* source files in the uploader of the workbench
MaxFiles == 2
\* longest enumerated reply of the lesson call, in tokens
MaxLessonLen == 4

None == <<>>
Some(v) == <<v>>
IsNone(o) == o = <<>>
Val(o) == o[1]

NL == "\n"
SP == " "
PIPE == "|"
\* the characters str.strip() removes (those of the alphabet used here)
Whitespace == {SP, NL}
Alphabet == {"a", SP, PIPE, NL}

PENDING == "PENDING"
COMPLETE == "COMPLETE"
\* the Status of a row the user added in the grid (the column is disabled)
NOSTATUS == "NONE"

(***************************************************************************)
(* Python's string functions, as the program uses them.                    *)
(***************************************************************************)
RECURSIVE LStrip(_)
LStrip(s) ==
    IF s # <<>> /\ Head(s) \in Whitespace THEN LStrip(Tail(s)) ELSE s

RECURSIVE RStrip(_)
RStrip(s) ==
    IF s # <<>> /\ s[Len(s)] \in Whitespace
    THEN RStrip(SubSeq(s, 1, Len(s) - 1))
    ELSE s

\* str.strip()
Strip(s) == RStrip(LStrip(s))

\* sep in s
Contains(s, sep) == \E i \in 1..Len(s) : s[i] = sep

\* the characters of s before the first sep (all of s when there is none)
RECURSIVE UpTo(_, _)
UpTo(s, sep) ==
    IF s = <<>> \/ Head(s) = sep THEN <<>>
    ELSE <<Head(s)>> \o UpTo(Tail(s), sep)

\* str.split(sep) for a one-character sep: never empty, "" gives [""]
RECURSIVE Split(_, _)
Split(s, sep) ==
    LET first == UpTo(s, sep)
    IN  IF Len(first) = Len(s) THEN <<first>>
        ELSE <<first>> \o Split(SubSeq(s, Len(first) + 2, Len(s)), sep)

\* f"Week {n}"
WeekLabel(n) == [tag |-> "Week", n |-> n]

Topic == <<"T", "o", "p", "i", "c">>
Grammar == <<"G", "r", "a", "m", "m", "a", "r">>
Review == <<"R", "e", "v", "i", "e", "w">>

(***************************************************************************)
(* Step 2: the skeleton parser.                                            *)
(***************************************************************************)
\* generate_skeleton_llm: the lines of the reply
SkeletonLines(text) == Split(Strip(text), NL)

\* the row appended for lines[i]
SkeletonRow(lines, i) ==
    LET parts == Split(lines[i], PIPE)
    IN  [Week |-> WeekLabel(i),
         Theme |-> Strip(parts[1]),
         GrammarFocus |-> IF Len(parts) > 1 THEN Strip(parts[2]) ELSE Review,
         Status |-> PENDING]

\* the loop over enumerate(lines)
ParsedRows(lines) ==
    LET valid == SelectSeq([i \in 1..Len(lines) |-> i],
                           LAMBDA i : Contains(lines[i], PIPE))
    IN  [k \in 1..Len(valid) |-> SkeletonRow(lines, valid[k])]

\* the fallback when no line has the separator
FallbackRows ==
    [i \in 1..NumWeeks |->
        [Week |-> WeekLabel(i), Theme |-> Topic, GrammarFocus |-> Grammar,
         Status |-> PENDING]]

\* StructuredData without the fallback of lines 167-168
StructuredDataNoFallback(lines) == ParsedRows(lines)

\* StructuredData filled up to 34 rows with generic rows
StructuredDataPadded(lines) ==
    LET parsed == ParsedRows(lines)
    IN  IF Len(parsed) >= NumWeeks THEN parsed
        ELSE parsed \o SubSeq(FallbackRows, Len(parsed) + 1, NumWeeks)

\* structured_data after the loop and the fallback
StructuredData(lines) ==
    IF ParsedRows(lines) = <<>> THEN FallbackRows ELSE ParsedRows(lines)

(***************************************************************************)
(* Step 1: the calibration reply.  A reply is a sequence of tokens: the    *)
(* three fence markers and Python expressions.                             *)
(***************************************************************************)
\* the markers: three backquotes followed by json, by python, by nothing
FENCE_JSON == "[fence]json"
FENCE_PYTHON == "[fence]python"
FENCE == "[fence]"
Fences == {FENCE_JSON, FENCE_PYTHON, FENCE}

Keys == {"audience", "level", "grading", "themes"}

Dict(d) == [type |-> "dict", val |-> d]
EmptyDict == Dict(<<>>)
\* a reply that follows the prompt
GoodDict ==
    Dict([audience |-> "Grade 7", level |-> "A2", grading |-> "E",
          themes |-> "Myths"])
\* the except branch of analyze_curriculum_llm
ErrorDict ==
    Dict([audience |-> "Error parsing", level |-> "Error",
          grading |-> "Error", themes |-> "Error"])
ListValue == [type |-> "list", val |-> <<1>>]
NoneValue == [type |-> "NoneType", val |-> <<>>]

\* the expression tokens eval() accepts, and their values
Literals == {"{4 keys}", "{}", "[1]", "None"}
LiteralValue(tok) ==
    CASE tok = "{4 keys}" -> GoodDict
      [] tok = "{}" -> EmptyDict
      [] tok = "[1]" -> ListValue
      [] tok = "None" -> NoneValue

\* response.text with the three markers replaced by ""
CleanText(resp) == SelectSeq(resp, LAMBDA tok : tok \notin Fences)

\* try: eval(clean_text) except: the error mapping
EvalOrError(clean_text) ==
    IF Len(clean_text) = 1 /\ clean_text[1] \in Literals
    THEN LiteralValue(clean_text[1])
    ELSE ErrorDict

\* analyze_curriculum_llm, given the reply of the model
analyze_curriculum_llm(resp) == EvalOrError(CleanText(resp))

\* Python truthiness of a value
Truthy(v) ==
    CASE v.type = "dict" -> DOMAIN v.val # {}
      [] v.type = "list" -> v.val # <<>>
      [] OTHER -> FALSE

\* data.get(k, '') of a mapping (the form is not drawn for another value)
Get(data, k) ==
    IF data.type = "dict" /\ k \in DOMAIN data.val THEN data.val[k] ELSE ""

\* The documents of the user: a file the reader cannot read, or pages.  A
\* page is given by its length n, and its text is the first n characters of
\* 1234567890 repeated.
Digits == <<"1", "2", "3", "4", "5", "6", "7", "8", "9", "0">>
Page(n) == [i \in 1..n |-> Digits[((i - 1) % Len(Digits)) + 1]]
Unreadable == [readable |-> FALSE, pages |-> <<>>]
Pdf(pages) == [readable |-> TRUE, pages |-> pages]

\* text += page.extract_text() + "\n", over the pages
RECURSIVE PagesText(_)
PagesText(pages) ==
    IF pages = <<>> THEN <<>>
    ELSE Page(Head(pages)) \o <<NL>> \o PagesText(Tail(pages))

\* extract_pdf_text: None when the reader raises, else the text of the pages
extract_pdf_text(doc) ==
    IF doc.readable THEN Some(PagesText(doc.pages)) ELSE None

\* if raw_text:
TruthyText(raw_text) == ~IsNone(raw_text) /\ Val(raw_text) # <<>>

\* the slice left out: the whole text
SliceAll(text, n) == text

\* text[:n]
Slice(text, n) == SubSeq(text, 1, IF Len(text) < n THEN Len(text) ELSE n)

\* the prompt of analyze_curriculum_llm: the frame and the text embedded
calibration_prompt(text) ==
    [task |-> "calibration", text |-> Slice(text, CURRICULUM_LIMIT)]

(***************************************************************************)
(* The prompt of the workbench.  An uploaded file has a type, a name and   *)
(* either a document (PDF) or a text that decodes as UTF-8 (any other      *)
(* type), given by its length like a page.                                 *)
(***************************************************************************)
PdfFile(name, doc) ==
    [type |-> "pdf", name |-> name, doc |-> doc, size |-> 0]
TextFile(name, size) ==
    [type |-> "text", name |-> name, doc |-> Unreadable, size |-> size]

\* an optional text formatted by an f-string: None prints as None
Format(opt) == IF IsNone(opt) THEN <<"N", "o", "n", "e">> ELSE Val(opt)

\* the excerpt of one file
Excerpt(f) ==
    IF f.type = "pdf" THEN Format(extract_pdf_text(f.doc)) ELSE Page(f.size)

\* f"\nSOURCE ({f.name}):\n{...}\n"
NamedExcerpt(f) ==
    <<NL, "S", "O", "U", "R", "C", "E", SP, "(">> \o f.name
    \o <<")", ":", NL>> \o Excerpt(f) \o <<NL>>

\* source_text after the loop over the uploaded files
RECURSIVE source_text(_)
source_text(files) ==
    IF files = <<>> THEN <<>>
    ELSE NamedExcerpt(Head(files)) \o source_text(Tail(files))

STRICT == "INSTRUCTIONS: Use SOURCE MATERIAL strictly."
CREATIVE == "INSTRUCTIONS: Write creative Greek text."
instruction_mode(text) == IF text # <<>> THEN STRICT ELSE CREATIVE

access_mode(accessibility) ==
    IF accessibility THEN "CONSTRAINT: Dyslexia-friendly, simple sentences."
    ELSE ""

\* full_prompt: the values the f-string embeds (Topic and Grammar as
\* filled in from the row, no teacher notes)
full_prompt(config, week, row, accessibility, files) ==
    [task |-> "lesson", context |-> config, week |-> week,
     topic |-> row.Theme, grammar |-> row.GrammarFocus, notes |-> <<>>,
     access_mode |-> access_mode(accessibility),
     instruction_mode |-> instruction_mode(source_text(files)),
     source |-> Slice(source_text(files), SOURCE_LIMIT)]

(***************************************************************************)
(* The preview of a lesson.  The reply of the lesson call is a sequence of *)
(* tokens: a token is a tag or a character.                                *)
(***************************************************************************)
T_OPEN == "<TEACHER>"
T_CLOSE == "</TEACHER>"
S_OPEN == "<STUDENT_TEXT>"
S_CLOSE == "</STUDENT_TEXT>"
E_OPEN == "<STUDENT_EXERCISES>"
E_CLOSE == "</STUDENT_EXERCISES>"
T_ERROR == <<"Error parsing Teacher Guide">>
S_ERROR == <<"Error parsing Student Text">>
E_ERROR == <<"Error parsing Exercises">>

\* the least element of a set of numbers that is not empty
Least(S) == CHOOSE k \in S : \A m \in S : k <= m

\* where the lazy group stops once the opening tag matched at p: the first
\* closing tag after it (0: none)
LazyEnd(raw, p, close) ==
    LET ends == {q \in (p + 1)..Len(raw) : raw[q] = close}
    IN  IF ends = {} THEN 0 ELSE Least(ends)

\* re.search without re.DOTALL: the group does not cross a line break
re_search_no_dotall(raw, open, close) ==
    LET starts == {p \in 1..Len(raw) :
                     /\ raw[p] = open
                     /\ LazyEnd(raw, p, close) # 0
                     /\ \A k \in (p + 1)..(LazyEnd(raw, p, close) - 1) :
                           raw[k] # NL}
    IN  IF starts = {} THEN None
        ELSE Some(SubSeq(raw, Least(starts) + 1,
                         LazyEnd(raw, Least(starts), close) - 1))

\* re.search(open(.*?)close, raw, re.DOTALL).group(1): the scan tries the
\* positions from the left and keeps the first one where the pattern
\* matches; None stands for the AttributeError of None.group
re_search(raw, open, close) ==
    LET starts == {p \in 1..Len(raw) :
                     raw[p] = open /\ LazyEnd(raw, p, close) # 0}
    IN  IF starts = {} THEN None
        ELSE Some(SubSeq(raw, Least(starts) + 1,
                         LazyEnd(raw, Least(starts), close) - 1))

\* try: re.search(...).group(1).strip() except: the marker
Section(raw, open, close, marker) ==
    IF IsNone(re_search(raw, open, close)) THEN marker
    ELSE Strip(Val(re_search(raw, open, close)))

\* the three tabs of the preview
Preview(raw) ==
    [t_guide |-> Section(raw, T_OPEN, T_CLOSE, T_ERROR),
     s_text |-> Section(raw, S_OPEN, S_CLOSE, S_ERROR),
     exercises |-> Section(raw, E_OPEN, E_CLOSE, E_ERROR)]

(***************************************************************************)
(* The replies of the model and the inputs of the user that are explored.  *)
(***************************************************************************)
CalibResponses ==
    {<<tok>> : tok \in Literals \cup {"prose"}}
    \cup {<<FENCE_JSON, "{4 keys}", FENCE>>, <<FENCE_PYTHON, "{4 keys}", FENCE>>,
          <<FENCE, "{4 keys}", FENCE>>, <<"prose", "{4 keys}">>, <<>>}

\* n lines, each the given line
RECURSIVE Lines(_, _)
Lines(n, line) ==
    IF n <= 1 THEN line ELSE line \o <<NL>> \o Lines(n - 1, line)

\* every text of at most n characters
RECURSIVE TextsUpTo(_)
TextsUpTo(n) ==
    IF n = 0 THEN {<<>>}
    ELSE LET shorter == TextsUpTo(n - 1)
         IN  shorter \cup {t \o <<c>> : t \in shorter, c \in Alphabet}

\* replies of the skeleton call explored by the session: no separator, one
\* line, and two valid lines around an invalid one
SkeletonResponses ==
    {<<"a">>,
     <<"a", PIPE, "a">>,
     <<"a", PIPE, "a", NL, "a", NL, SP, "a", PIPE>>}

\* replies explored by the parser alone
ParserResponses ==
    TextsUpTo(MaxTextLen)
    \cup {Lines(n, line) : n \in {NumWeeks - 1, NumWeeks, NumWeeks + 1},
                           line \in {<<"a", PIPE, "a">>, <<"a">>}}

\* the reply of the lesson call explored by the session
LessonResponses == {<<T_OPEN, "a", T_CLOSE>>}

\* the curriculum documents explored by the session: unreadable, without a
\* page, one page of one character
Docs == {Unreadable, Pdf(<<>>), Pdf(<<1>>)}

\* every sequence of at most n elements of S
SeqsUpTo(S, n) == UNION {[1..k -> S] : k \in 0..n}

\* the curriculum documents explored for the prompt: pages around the
\* limit of the slice
PageSizes ==
    {0, 1, CURRICULUM_LIMIT - 2, CURRICULUM_LIMIT - 1, CURRICULUM_LIMIT}
LongDocs == {Unreadable} \cup {Pdf(pages) : pages \in SeqsUpTo(PageSizes, MaxPages)}

\* the files explored for the uploader: PDFs that are unreadable, without a
\* page and of one character; texts that are empty, that fill the slice
\* exactly, and that exceed it
FileKinds ==
    {PdfFile(<<"f">>, Unreadable), PdfFile(<<"f">>, Pdf(<<>>)),
     PdfFile(<<"f">>, Pdf(<<1>>)),
     TextFile(<<"g">>, 0),
     TextFile(<<"g">>, SOURCE_LIMIT - Len(NamedExcerpt(TextFile(<<"g">>, 0)))),
     TextFile(<<"g">>, SOURCE_LIMIT)}
UploadLists == SeqsUpTo(FileKinds, MaxFiles)

\* every reply of the lesson call of at most n tokens
LessonTokens == {T_OPEN, T_CLOSE, S_OPEN, S_CLOSE, E_OPEN, E_CLOSE, "a", NL}
LessonTexts == SeqsUpTo(LessonTokens, MaxLessonLen)

\* what the user types in a Week cell: nothing, an existing label, a new one
NoLabel == [tag |-> "None", n |-> 0]
UserLabels == {NoLabel, WeekLabel(1), [tag |-> "Text", n |-> 0]}

\* what the user does with the Target Audience field of the form: leaves
\* the value filled in from the analysis, or types another
AudienceInputs == {None, Some("Grade 8")}

(***************************************************************************)
(* The session.  Each action is one run of the script.  last is the widget *)
(* that triggered the run and what the user chose in it; api_key, the text *)
(* of the key field, is an input of the run (TRUE: a key is typed in).     *)
(* edits counts the grid edits made, which MaxEdits limits.  Of the grid,  *)
(* the Week cells, added rows and deleted rows are modelled; edits of the  *)
(* Topic and Grammar Focus cells are not.                                  *)
(***************************************************************************)
Did(op) ==
    [op |-> op, sel |-> 0, week |-> NoLabel, text |-> <<>>,
     failed |-> "none", doc |-> None, prompt |-> None, shown |-> None]

TypeOK ==
    /\ analyzed_curriculum.type \in {"dict", "list", "NoneType"}
    /\ Len(locked_config) <= 1
    /\ Len(syllabus_df) <= 1
    /\ last.op \in STRING

Init ==
    /\ analyzed_curriculum = EmptyDict
    /\ locked_config = None
    /\ syllabus_df = None
    /\ generated_lessons = <<>>
    /\ uploaded_context = <<>>
    /\ last = Did("start")
    /\ edits = 0

\* the Analyze Document button is drawn
AnalyzeGate(api_key) == api_key /\ ~Truthy(analyzed_curriculum)

\* Analyze Document, the document read and the model answering
Analyze(api_key, doc, resp) ==
    /\ AnalyzeGate(api_key)
    /\ TruthyText(extract_pdf_text(doc))
    /\ analyzed_curriculum' = analyze_curriculum_llm(resp)
    /\ last' = [Did("analyze") EXCEPT
                   !.doc = Some(doc),
                   !.prompt = Some(calibration_prompt(
                                       Val(extract_pdf_text(doc))))]
    /\ UNCHANGED <<uploaded_context, edits, locked_config, syllabus_df, generated_lessons>>

\* Analyze Document, extract_pdf_text returning None or ""
AnalyzeNoText(api_key, doc) ==
    /\ AnalyzeGate(api_key)
    /\ ~TruthyText(extract_pdf_text(doc))
    /\ last' = [Did("analyze_no_text") EXCEPT
                   !.doc = Some(doc),
                   !.failed = IF IsNone(extract_pdf_text(doc))
                              THEN "extraction" ELSE "none"]
    /\ UNCHANGED <<uploaded_context, edits, analyzed_curriculum, locked_config, syllabus_df,
                   generated_lessons>>

\* Analyze Document, generate_content raising
AnalyzeModelError(api_key, doc) ==
    /\ AnalyzeGate(api_key)
    /\ TruthyText(extract_pdf_text(doc))
    /\ last' = [Did("analyze_model_error") EXCEPT !.failed = "model"]
    /\ UNCHANGED <<uploaded_context, edits, analyzed_curriculum, locked_config, syllabus_df,
                   generated_lessons>>

\* FormGate with the test of line 123 left out
FormGateAlways == TRUE

\* the calibration form is drawn: the analysis is truthy, and data.get
\* exists (the script stops at the first data.get otherwise)
FormGate ==
    Truthy(analyzed_curriculum) /\ analyzed_curriculum.type = "dict"

\* the mapping stored by Lock Configuration
FormValues(audience, level, grading, themes) ==
    Some([audience |-> audience, level |-> level, grading |-> grading,
          themes |-> themes])

\* Lock Configuration
Lock(typed) ==
    /\ FormGate
    /\ locked_config' =
         FormValues(IF IsNone(typed)
                    THEN Get(analyzed_curriculum, "audience")
                    ELSE Val(typed),
                    Get(analyzed_curriculum, "level"),
                    Get(analyzed_curriculum, "grading"),
                    Get(analyzed_curriculum, "themes"))
    /\ last' = Did("lock")
    /\ UNCHANGED <<uploaded_context, edits, analyzed_curriculum, syllabus_df,
                   generated_lessons>>

\* if st.session_state['locked_config']: a mapping of four keys is truthy
Locked == ~IsNone(locked_config)

\* SkeletonGate with the test of line 144 left out
SkeletonGateNoLock == IsNone(syllabus_df)

\* the Generate 34-Week Skeleton button is drawn
SkeletonGate == Locked /\ IsNone(syllabus_df)

\* Generate 34-Week Skeleton, the model answering text
GenerateSkeleton(api_key, text) ==
    /\ SkeletonGate
    /\ api_key
    /\ syllabus_df' = Some(StructuredData(SkeletonLines(text)))
    /\ last' = [Did("skeleton") EXCEPT !.text = text]
    /\ UNCHANGED <<uploaded_context, edits, analyzed_curriculum, locked_config,
                   generated_lessons>>

\* Generate 34-Week Skeleton without a key: st.error("Need API Key")
SkeletonNoKey(api_key) ==
    /\ SkeletonGate
    /\ ~api_key
    /\ last' = Did("skeleton_no_key")
    /\ UNCHANGED <<uploaded_context, edits, analyzed_curriculum, locked_config, syllabus_df,
                   generated_lessons>>

\* Generate 34-Week Skeleton, generate_content raising
SkeletonModelError(api_key) ==
    /\ SkeletonGate
    /\ api_key
    /\ last' = [Did("skeleton_model_error") EXCEPT !.failed = "model"]
    /\ UNCHANGED <<uploaded_context, edits, analyzed_curriculum, locked_config, syllabus_df,
                   generated_lessons>>

\* the rows of the grid
Rows == Val(syllabus_df)

\* the editable grid and the Reset Syllabus button are drawn
GridGate == Locked /\ ~IsNone(syllabus_df)

\* rows the user reaches in this model
Reach == 1..(IF Len(Rows) < MaxRow THEN Len(Rows) ELSE MaxRow)

\* st.data_editor: the user retypes the Week cell of row i
EditWeek(i, label) ==
    /\ GridGate
    /\ edits < MaxEdits
    /\ i \in Reach
    /\ syllabus_df' = Some([Rows EXCEPT ![i].Week = label])
    /\ edits' = edits + 1
    /\ last' = [Did("edit_week") EXCEPT !.sel = i]
    /\ UNCHANGED <<uploaded_context, analyzed_curriculum, locked_config,
                   generated_lessons>>

\* st.data_editor, num_rows="dynamic": the user adds a row at the end; its
\* Status cell cannot be typed
AddRow(label) ==
    /\ GridGate
    /\ edits < MaxEdits
    /\ syllabus_df' =
         Some(Append(Rows, [Week |-> label, Theme |-> <<>>,
                            GrammarFocus |-> <<>>, Status |-> NOSTATUS]))
    /\ edits' = edits + 1
    /\ last' = Did("add_row")
    /\ UNCHANGED <<uploaded_context, analyzed_curriculum, locked_config,
                   generated_lessons>>

\* st.data_editor, num_rows="dynamic": the user deletes row i
DeleteRow(i) ==
    /\ GridGate
    /\ edits < MaxEdits
    /\ i \in Reach
    /\ syllabus_df' =
         Some(SubSeq(Rows, 1, i - 1) \o SubSeq(Rows, i + 1, Len(Rows)))
    /\ edits' = edits + 1
    /\ last' = [Did("delete_row") EXCEPT !.sel = i]
    /\ UNCHANGED <<uploaded_context, analyzed_curriculum, locked_config,
                   generated_lessons>>

\* Reset Syllabus clearing the whole session state set up in lines 17-18
ResetUnlocks ==
    /\ GridGate
    /\ syllabus_df' = None
    /\ locked_config' = None
    /\ last' = Did("reset")
    /\ UNCHANGED <<uploaded_context, edits, analyzed_curriculum, generated_lessons>>

\* Reset Syllabus clearing the lessons with the frame
ResetCascade ==
    /\ GridGate
    /\ syllabus_df' = None
    /\ generated_lessons' = <<>>
    /\ last' = Did("reset")
    /\ UNCHANGED <<uploaded_context, edits, analyzed_curriculum, locked_config>>

\* Reset Syllabus
Reset ==
    /\ GridGate
    /\ syllabus_df' = None
    /\ last' = Did("reset")
    /\ UNCHANGED <<uploaded_context, edits, analyzed_curriculum, locked_config,
                   generated_lessons>>

\* Step 3 is drawn: the frame exists and is not empty
WorkbenchGate == ~IsNone(syllabus_df) /\ Rows # <<>>

\* st.selectbox over the Week column: the label of the option chosen
week_to_edit(sel) == Rows[sel].Week

\* syllabus_df['Week'] == week: no cell equals a missing label
Matches(week) ==
    {i \in 1..Len(Rows) : week # NoLabel /\ Rows[i].Week = week}

\* the first row of the mask: .iloc[0], .index[...][0]
FirstMatch(week) ==
    CHOOSE i \in Matches(week) : \A j \in Matches(week) : i <= j

\* the workbench form is drawn for the option chosen: the row lookup
\* found a row (the script stops with IndexError otherwise)
FormDrawn(sel) ==
    /\ WorkbenchGate
    /\ sel \in Reach
    /\ Matches(week_to_edit(sel)) # {}

\* lesson_key as the label of the position chosen, f"Week {sel}"
lesson_key_by_position(sel) == WeekLabel(sel)

\* the key of generated_lessons[week_to_edit] = output
lesson_key(sel) == week_to_edit(sel)

\* generated_lessons[week] = output
StoreLesson(lessons, week, output) ==
    [w \in DOMAIN lessons \cup {week} |->
        IF w = week THEN output ELSE lessons[w]]

\* the status set one row below the row found, where there is one
MarkCompleteOffByOne(rows, idx) ==
    [rows EXCEPT ![IF idx < Len(rows) THEN idx + 1 ELSE idx].Status =
                    COMPLETE]

\* syllabus_df.at[idx, 'Status'] = green
MarkComplete(rows, idx) == [rows EXCEPT ![idx].Status = COMPLETE]

\* st.file_uploader of the form: the user changes the files it holds
UploadFiles(files) ==
    /\ WorkbenchGate
    /\ \E sel \in Reach : FormDrawn(sel)
    /\ files # uploaded_context
    /\ uploaded_context' = files
    /\ last' = Did("upload")
    /\ UNCHANGED <<edits, analyzed_curriculum, locked_config, syllabus_df,
                   generated_lessons>>

\* the row the form is filled from: .iloc[0] of the mask
form_row(sel) == Rows[FirstMatch(week_to_edit(sel))]

\* extract_pdf_text returned None for one of the uploaded files
ExtractionFailed(files) ==
    \E i \in 1..Len(files) :
        files[i].type = "pdf" /\ IsNone(extract_pdf_text(files[i].doc))

\* the prompt of the run, from the form and the uploader
LessonPrompt(sel, accessibility) ==
    full_prompt(Val(locked_config), week_to_edit(sel), form_row(sel),
                accessibility, uploaded_context)

\* Generate Lesson Materials, the model answering output; st.rerun() then
\* draws the preview of the lesson stored
GenerateLesson(api_key, sel, accessibility, output) ==
    /\ FormDrawn(sel)
    /\ api_key
    /\ generated_lessons' =
         StoreLesson(generated_lessons, lesson_key(sel), output)
    /\ syllabus_df' =
         Some(MarkComplete(Rows, FirstMatch(week_to_edit(sel))))
    /\ last' = [Did("generate") EXCEPT
                   !.sel = sel,
                   !.week = week_to_edit(sel),
                   !.prompt = Some(LessonPrompt(sel, accessibility)),
                   !.failed = IF ExtractionFailed(uploaded_context)
                              THEN "extraction" ELSE "none",
                   !.shown = Some(Preview(output))]
    /\ UNCHANGED <<uploaded_context, edits, analyzed_curriculum,
                   locked_config>>

\* LessonModelError with the status set before the call of the model
LessonModelErrorAfterMark(api_key, sel) ==
    /\ FormDrawn(sel)
    /\ api_key
    /\ syllabus_df' =
         Some(MarkComplete(Rows, FirstMatch(week_to_edit(sel))))
    /\ last' = [Did("generate_model_error") EXCEPT !.failed = "model"]
    /\ UNCHANGED <<uploaded_context, edits, analyzed_curriculum,
                   locked_config, generated_lessons>>

\* Generate Lesson Materials, generate_content raising
LessonModelError(api_key, sel) ==
    /\ FormDrawn(sel)
    /\ api_key
    /\ last' = [Did("generate_model_error") EXCEPT !.failed = "model"]
    /\ UNCHANGED <<uploaded_context, edits, analyzed_curriculum,
                   locked_config, syllabus_df, generated_lessons>>

\* the user picks an option of the selectbox and the row lookup finds a
\* row: the form is drawn, and the preview if a lesson is stored
SelectWeek(sel) ==
    /\ FormDrawn(sel)
    /\ last' = [Did("select") EXCEPT
                   !.sel = sel,
                   !.week = week_to_edit(sel),
                   !.shown =
                      IF week_to_edit(sel) \in DOMAIN generated_lessons
                      THEN Some(Preview(generated_lessons[week_to_edit(sel)]))
                      ELSE None]
    /\ UNCHANGED <<uploaded_context, edits, analyzed_curriculum,
                   locked_config, syllabus_df, generated_lessons>>

\* the user picks an option of the selectbox and the mask of line 203 is
\* empty: .iloc[0] raises IndexError and the run stops
SelectWeekError(sel) ==
    /\ WorkbenchGate
    /\ sel \in Reach
    /\ Matches(week_to_edit(sel)) = {}
    /\ last' = [Did("select_error") EXCEPT
                   !.sel = sel,
                   !.week = week_to_edit(sel),
                   !.failed = "lookup"]
    /\ UNCHANGED <<uploaded_context, edits, analyzed_curriculum,
                   locked_config, syllabus_df, generated_lessons>>

Next ==
    \/ \E api_key \in BOOLEAN, doc \in Docs, resp \in CalibResponses :
          Analyze(api_key, doc, resp)
    \/ \E api_key \in BOOLEAN, doc \in Docs : AnalyzeNoText(api_key, doc)
    \/ \E api_key \in BOOLEAN, doc \in Docs : AnalyzeModelError(api_key, doc)
    \/ \E typed \in AudienceInputs : Lock(typed)
    \/ \E api_key \in BOOLEAN, text \in SkeletonResponses :
          GenerateSkeleton(api_key, text)
    \/ \E api_key \in BOOLEAN : SkeletonNoKey(api_key)
    \/ \E api_key \in BOOLEAN : SkeletonModelError(api_key)
    \/ \E i \in 1..MaxRow, label \in UserLabels : EditWeek(i, label)
    \/ \E label \in UserLabels : AddRow(label)
    \/ \E i \in 1..MaxRow : DeleteRow(i)
    \/ Reset
    \/ \E api_key \in BOOLEAN, sel \in 1..MaxRow, output \in LessonResponses :
          GenerateLesson(api_key, sel, FALSE, output)
    \/ \E api_key \in BOOLEAN, sel \in 1..MaxRow :
          LessonModelError(api_key, sel)
    \/ \E sel \in 1..MaxRow : SelectWeekError(sel)

Spec == Init /\ [][Next]_vars

(***************************************************************************)
(* The skeleton parser alone: a session with a locked profile, and the     *)
(* skeleton generated from every reply of ParserResponses.                 *)
(***************************************************************************)
ParserInit ==
    /\ analyzed_curriculum = GoodDict
    /\ locked_config =
         FormValues(Get(GoodDict, "audience"), Get(GoodDict, "level"),
                    Get(GoodDict, "grading"), Get(GoodDict, "themes"))
    /\ syllabus_df = None
    /\ generated_lessons = <<>>
    /\ uploaded_context = <<>>
    /\ last = Did("lock")
    /\ edits = 0

ParserNext == \E text \in ParserResponses : GenerateSkeleton(TRUE, text)

ParserSpec == ParserInit /\ [][ParserNext]_vars

(***************************************************************************)
(* The prompts: a session that reaches the workbench by one path, with     *)
(* the documents and the uploaded files that make the slices matter.       *)
(***************************************************************************)
PromptNext ==
    \/ \E doc \in LongDocs : Analyze(TRUE, doc, <<"{4 keys}">>)
    \/ \E doc \in LongDocs : AnalyzeNoText(TRUE, doc)
    \/ Lock(None)
    \/ GenerateSkeleton(TRUE, <<"a", PIPE, "a">>)
    \/ \E files \in UploadLists : UploadFiles(files)
    \/ \E accessibility \in BOOLEAN, output \in LessonResponses :
          GenerateLesson(TRUE, 1, accessibility, output)

PromptSpec == Init /\ [][PromptNext]_vars

(***************************************************************************)
(* The preview alone: a session in which the lesson call answered raw for  *)
(* the only week of the skeleton, and the user selects that week.          *)
(***************************************************************************)
PreviewInit ==
    /\ analyzed_curriculum = GoodDict
    /\ locked_config =
         FormValues(Get(GoodDict, "audience"), Get(GoodDict, "level"),
                    Get(GoodDict, "grading"), Get(GoodDict, "themes"))
    /\ \E raw \in LessonTexts :
          /\ generated_lessons = StoreLesson(<<>>, WeekLabel(1), raw)
          /\ last = [Did("generate") EXCEPT
                        !.sel = 1, !.week = WeekLabel(1),
                        !.shown = Some(Preview(raw))]
    /\ syllabus_df =
         Some(MarkComplete(StructuredData(SkeletonLines(<<"a", PIPE, "a">>)),
                           1))
    /\ uploaded_context = <<>>
    /\ edits = 0

PreviewNext == SelectWeek(1)

PreviewSpec == PreviewInit /\ [][PreviewNext]_vars

(***************************************************************************)
(* Properties of the session.                                              *)
(***************************************************************************)
\* the runs of Step 2: the skeleton button, the grid, the reset button
Stage2Ops ==
    {"skeleton", "skeleton_no_key", "skeleton_model_error", "edit_week",
     "add_row", "delete_row", "reset"}

\* C1: once a locked profile is stored, no later action changes its content
\* (a second Lock Configuration is a no-op or is rejected).
C1_LockedProfileNeverChanges ==
    [][Locked => locked_config' = locked_config]_vars

\* C2: locking is one-way: once locked_config is set it stays set in every
\* later state, whatever the action (analyze, lock, skeleton, grid edit, reset,
\* lesson generation).
C2_LockIsOneWay == [][Locked => Locked']_vars

\* C2: the profile is still locked after a reset that followed a lesson
\* generation
C2_Witness == Locked /\ last.op = "reset" /\ generated_lessons # <<>>

\* C3: whenever the week-plan collection exists the profile is locked, and a
\* run of Step 2 (skeleton generation first of all) only happens with the
\* profile locked.
C3_CollectionOnlyWhenLocked ==
    [][/\ ~IsNone(syllabus_df') => Locked'
       /\ last'.op \in Stage2Ops => Locked]_vars

\* C3: a skeleton has been generated
C3_Witness == last.op = "skeleton" /\ ~IsNone(syllabus_df) /\ Locked

\* C4: a locked profile implies a non-empty analyzed profile, and Lock
\* Configuration only runs once an analysis result is stored (never from the
\* state without a profile).
C4_LockNeedsAnalysis ==
    [][/\ Locked' => Truthy(analyzed_curriculum')
       /\ last'.op = "lock" => Truthy(analyzed_curriculum)]_vars

\* C4: the profile was locked from the mapping stored after a reply that
\* could not be evaluated
C4_Witness == last.op = "lock" /\ Locked /\ analyzed_curriculum = ErrorDict

\* C5: lesson material is stored only by a lesson generation, only under the
\* week chosen, only while the collection exists and is not empty, and that
\* week is a Week value of the collection at that moment.
C5_LessonOnlyForPresentWeek ==
    [][/\ generated_lessons' # generated_lessons => last'.op = "generate"
       /\ last'.op = "generate" =>
            /\ WorkbenchGate
            /\ \E i \in 1..Len(Rows) : Rows[i].Week = last'.week
            /\ last'.week \in DOMAIN generated_lessons'
            /\ \A w \in DOMAIN generated_lessons' \ {last'.week} :
                  /\ w \in DOMAIN generated_lessons
                  /\ generated_lessons'[w] = generated_lessons[w]]_vars

\* C5: a lesson was generated for a row whose Week cell the user retyped
C5_Witness ==
    /\ last.op = "generate"
    /\ last.week.tag = "Text"
    /\ last.week \in DOMAIN generated_lessons

\* C6: after a lesson generation the entry the user selected has status
\* COMPLETE and the status of every other entry is unchanged, also after
\* rows were added, removed or relabelled.
C6_SelectedEntryCompleted ==
    [][last'.op = "generate" =>
         /\ Len(Val(syllabus_df')) = Len(Rows)
         /\ Val(syllabus_df')[last'.sel].Status = COMPLETE
         /\ \A i \in (1..Len(Rows)) \ {last'.sel} :
               Val(syllabus_df')[i].Status = Rows[i].Status]_vars

\* C7: the reset clears the collection, which leaves the skeleton button
\* drawn and the workbench not, and changes neither the locked profile, nor
\* the analyzed profile, nor the lesson material.
C7_ResetClearsOnlyCollection ==
    [][last'.op = "reset" =>
         /\ IsNone(syllabus_df')
         /\ SkeletonGate'
         /\ ~WorkbenchGate'
         /\ UNCHANGED <<locked_config, analyzed_curriculum,
                        generated_lessons>>]_vars

\* C7: a reset after a lesson was generated
C7_Witness ==
    /\ last.op = "reset"
    /\ IsNone(syllabus_df)
    /\ \E w \in DOMAIN generated_lessons : generated_lessons[w] \in LessonResponses

\* C11: the stored analyzed profile is always either empty or a mapping with
\* the keys audience, level, grading, themes: the calibration parser returns
\* the mapping of a mapping literal and the error mapping for every other
\* text, never the value of a text that is no mapping.
C11_AnalysisIsFourKeyMapping ==
    \/ ~Truthy(analyzed_curriculum)
    \/ /\ analyzed_curriculum.type = "dict"
       /\ DOMAIN analyzed_curriculum.val = Keys

\* the four values of the session state
session == <<analyzed_curriculum, locked_config, syllabus_df,
             generated_lessons>>

\* C12: a run in which the extraction of a document fails changes nothing:
\* at stage 1 the analyzed profile stays as it was, at stage 3 no lesson is
\* stored and no status changes, whichever uploaded file failed.
C12_ExtractionFailureChangesNothing ==
    [][last'.failed = "extraction" => UNCHANGED session]_vars

\* C13: a run in which the call of the model fails, at any of the three
\* stages, leaves the analyzed profile, the locked profile, the collection
\* with its statuses and the lessons as they were.
C13_ModelFailureChangesNothing ==
    [][last'.failed = "model" => UNCHANGED session]_vars

C13_Witness ==
    /\ last.op = "generate_model_error"
    /\ generated_lessons # <<>>
    /\ \E i \in 1..Len(Rows) : Rows[i].Status = PENDING

\* C14: after a failed or error-marked outcome (the extraction failed, the
\* model failed, or the calibration reply could not be parsed and the error
\* mapping was stored) the action that produced it is still offered.
C14_FailureLeavesActionEnabled ==
    /\ last.op \in {"analyze_no_text", "analyze_model_error"}
          /\ last.failed # "none" => AnalyzeGate(TRUE)
    /\ last.op = "analyze" /\ analyzed_curriculum = ErrorDict
          => AnalyzeGate(TRUE)
    /\ last.op = "skeleton_model_error" => SkeletonGate
    /\ last.op = "generate_model_error"
          => WorkbenchGate /\ \E sel \in Reach : FormDrawn(sel)

(***************************************************************************)
(* Properties of the skeleton parser, stated on the characters of the      *)
(* reply: a line is a maximal run of characters other than the newline.    *)
(***************************************************************************)
\* the positions just before each line of text: 0 and those of the newlines
LineBreaks(text) == {0} \cup {i \in 1..Len(text) : text[i] = NL}

\* the position just after the line that starts after position b
LineEnd(text, b) ==
    LET after == {i \in (b + 1)..Len(text) : text[i] = NL}
    IN  IF after = {} THEN Len(text) + 1
        ELSE CHOOSE i \in after : \A j \in after : i <= j

\* the positions of the separators of the line that starts after b
Separators(text, b) ==
    {i \in (b + 1)..(LineEnd(text, b) - 1) : text[i] = PIPE}

\* the lines that hold a separator, named by the position before them
ValidLines(text) == {b \in LineBreaks(text) : Separators(text, b) # {}}

\* the rank of valid line b among the valid lines, from 1
Rank(text, b) == Cardinality({c \in ValidLines(text) : c <= b})

\* the 1-based position of the line that starts after b
LineNumber(text, b) == Cardinality({c \in LineBreaks(text) : c <= b})

\* text without the whitespace at its two ends
Trimmed(text) ==
    LET solid == {i \in 1..Len(text) : text[i] \notin Whitespace}
    IN  IF solid = {} THEN <<>>
        ELSE SubSeq(text,
                    CHOOSE i \in solid : \A j \in solid : i <= j,
                    CHOOSE i \in solid : \A j \in solid : i >= j)

\* the first and second separator-delimited fields of valid line b
FirstField(text, b) ==
    LET seps == Separators(text, b)
        p1 == CHOOSE i \in seps : \A j \in seps : i <= j
    IN  SubSeq(text, b + 1, p1 - 1)

SecondField(text, b) ==
    LET seps == Separators(text, b)
        p1 == CHOOSE i \in seps : \A j \in seps : i <= j
        rest == (seps \ {p1}) \cup {LineEnd(text, b)}
        p2 == CHOOSE i \in rest : \A j \in rest : i <= j
    IN  SubSeq(text, p1 + 1, p2 - 1)

\* C8: skeleton generation ends with a non-empty collection for every reply
\* of the model, and with exactly the 34 generic entries (weeks 1..34, all
\* PENDING) when no line of the reply holds the separator.
C8_SkeletonNeverEmpty ==
    last.op = "skeleton" =>
        /\ ~IsNone(syllabus_df)
        /\ Rows # <<>>
        /\ ~Contains(last.text, PIPE) =>
              /\ Len(Rows) = 34
              /\ \A i \in 1..34 :
                    Rows[i] = [Week |-> WeekLabel(i), Theme |-> Topic,
                               GrammarFocus |-> Grammar, Status |-> PENDING]

\* C8: a skeleton generated from a reply of several lines without separator
C8_Witness ==
    /\ last.op = "skeleton"
    /\ ~Contains(last.text, PIPE)
    /\ Len(last.text) >= 3
    /\ last.text[1] = "a"
    /\ last.text[Len(last.text)] = "a"
    /\ Contains(last.text, NL)
    /\ Len(Rows) = 34

\* C9: a reply with k >= 1 lines that hold the separator gives exactly k
\* entries (no padding to 34), in line order, each with the trimmed first and
\* second separator-delimited fields of its line as topic and grammar, and
\* status PENDING; the other lines give no entry.
C9_OneEntryPerValidLine ==
    (last.op = "skeleton" /\ ValidLines(last.text) # {}) =>
        /\ Len(Rows) = Cardinality(ValidLines(last.text))
        /\ \A b \in ValidLines(last.text) :
              LET row == Rows[Rank(last.text, b)]
              IN  /\ row.Theme = Trimmed(FirstField(last.text, b))
                  /\ row.GrammarFocus = Trimmed(SecondField(last.text, b))
                  /\ row.Status = PENDING

\* C9: two valid lines around a line without separator, with a field that
\* has whitespace to trim
C9_Witness ==
    /\ last.op = "skeleton"
    /\ Cardinality(ValidLines(last.text)) = 2
    /\ Cardinality(LineBreaks(last.text)) = 3
    /\ \E b \in ValidLines(last.text) :
          FirstField(last.text, b) # Trimmed(FirstField(last.text, b))
    /\ Len(Rows) = 2

\* C10: every entry of a generated skeleton carries a week index that lies
\* in 1..34 and is unique in the collection, for every reply of the model.
C10_WeekIndexInRange ==
    last.op = "skeleton" =>
        \A i \in 1..Len(Rows) :
            /\ Rows[i].Week.tag = "Week"
            /\ Rows[i].Week.n \in 1..34
            /\ \A j \in 1..Len(Rows) : Rows[j].Week = Rows[i].Week => j = i

(***************************************************************************)
(* Properties of the preview and of the prompts.                           *)
(***************************************************************************)
\* the positions of the first opening tag and of the nearest closing tag
\* after it, as a set of at most one pair
TagPair(raw, open, close) ==
    {pq \in (1..Len(raw)) \X (1..Len(raw)) :
        /\ raw[pq[1]] = open
        /\ \A k \in 1..(pq[1] - 1) : raw[k] # open
        /\ pq[1] < pq[2]
        /\ raw[pq[2]] = close
        /\ \A k \in (pq[1] + 1)..(pq[2] - 1) : raw[k] # close}

\* the field of one section as the preview should show it
Field(raw, open, close, marker) ==
    IF TagPair(raw, open, close) = {} THEN marker
    ELSE LET pq == CHOOSE x \in TagPair(raw, open, close) : TRUE
         IN  Trimmed(SubSeq(raw, pq[1] + 1, pq[2] - 1))

\* C15: each of the three fields of the preview is the trimmed content
\* between the first opening tag of its section and the nearest closing tag
\* after it when there is such a pair, and the error marker of that section
\* otherwise, whatever the other sections hold and in whatever order.
C15_SectionsExtractedIndependently ==
    last.op = "select" =>
        LET raw == generated_lessons[last.week]
            shown == Val(last.shown)
        IN  /\ shown.t_guide = Field(raw, T_OPEN, T_CLOSE, T_ERROR)
            /\ shown.s_text = Field(raw, S_OPEN, S_CLOSE, S_ERROR)
            /\ shown.exercises = Field(raw, E_OPEN, E_CLOSE, E_ERROR)

C15_Witness ==
    /\ last.op = "select"
    /\ generated_lessons[last.week] = <<T_OPEN, NL, "a", T_CLOSE>>
    /\ Val(last.shown) =
         [t_guide |-> <<"a">>, s_text |-> S_ERROR, exercises |-> E_ERROR]

\* the text extracted from an uploaded file: none for an unreadable PDF
ExtractedText(f) ==
    IF f.type = "pdf" /\ IsNone(extract_pdf_text(f.doc)) THEN <<>>
    ELSE Excerpt(f)

\* C16: the lesson prompt says to use the source material strictly exactly
\* when at least one uploaded file has a text that is not empty, and to
\* write freely otherwise, files that are all empty included.
C16_StrictIffSomeExcerptNonEmpty ==
    last.op = "generate" =>
        LET some == \E i \in 1..Len(uploaded_context) :
                       ExtractedText(uploaded_context[i]) # <<>>
        IN  Val(last.prompt).instruction_mode =
               IF some THEN STRICT ELSE CREATIVE

\* a is the first Len(a) characters of b
IsPrefix(a, b) ==
    Len(a) <= Len(b) /\ \A i \in 1..Len(a) : a[i] = b[i]

\* C17: the calibration prompt embeds at most the first 10,000 characters
\* of the extracted document, and the lesson prompt at most the first 20,000
\* characters of the concatenation of the named source excerpts, whatever
\* the lengths and the number of files.
C17_PromptsEmbedBoundedPrefix ==
    /\ last.op = "analyze" =>
          /\ Len(Val(last.prompt).text) <= CURRICULUM_LIMIT
          /\ IsPrefix(Val(last.prompt).text,
                      Val(extract_pdf_text(Val(last.doc))))
    /\ last.op = "generate" =>
          /\ Len(Val(last.prompt).source) <= SOURCE_LIMIT
          /\ IsPrefix(Val(last.prompt).source,
                      source_text(uploaded_context))

C17_Witness ==
    /\ last.op = "generate"
    /\ Len(uploaded_context) >= 2
    /\ Len(source_text(uploaded_context)) > SOURCE_LIMIT
    /\ Len(Val(last.prompt).source) = SOURCE_LIMIT

\* C18: for every collection the grid edits reach (rows added, removed,
\* labels retyped or left blank) the run that draws the workbench for the
\* selected week never stops on an error: the row lookup finds a row.
C18_RowLookupAlwaysFinds == last.op # "select_error"

\* C19: in every state, an entry of the collection has status COMPLETE
\* exactly when a lesson is stored under the week label of that entry.
C19_CompleteIffLessonStored ==
    ~IsNone(syllabus_df) =>
        \A i \in 1..Len(Rows) :
            Rows[i].Status = COMPLETE
               <=> Rows[i].Week \in DOMAIN generated_lessons

\* the entries of the frame d that are COMPLETE
Completed(d) ==
    IF IsNone(d) THEN {}
    ELSE {i \in 1..Len(Val(d)) : Val(d)[i].Status = COMPLETE}

\* C19, amended: an entry becomes COMPLETE only in a run that generates a
\* lesson, and that run stores the lesson under the week label of that
\* entry; a stored lesson is never removed, so that after a reset the new
\* PENDING entries keep the lessons stored under their labels.
C19_CompleteOnlyWithLessonStored ==
    [][/\ DOMAIN generated_lessons \subseteq DOMAIN generated_lessons'
       /\ last'.op = "generate" =>
             /\ last'.week \in DOMAIN generated_lessons'
             /\ Completed(syllabus_df') # {}
             /\ \A i \in Completed(syllabus_df') \ Completed(syllabus_df) :
                   Rows'[i].Week = last'.week
       /\ last'.op # "generate" =>
             Cardinality(Completed(syllabus_df'))
                <= Cardinality(Completed(syllabus_df))]_vars

C19_Witness ==
    /\ last.op = "skeleton"
    /\ \E i \in 1..Len(Rows) :
          /\ Rows[i].Status = PENDING
          /\ Rows[i].Week \in DOMAIN generated_lessons
====
